---- MODULE Spec2Model ----
(***************************************************************************)
(* local-ccm: the per-node reconciliation loop (main, reconcile,           *)
(* addressesEqual), the node updater (GetNode, UpdateAddresses,            *)
(* RemoveTaint) and the route resolver (DetectIP).                         *)
(*                                                                         *)
(* The Node object held by the API server is the variable apiNode; the     *)
(* kernel route table and the API server's failures are the environment    *)
(* and are drawn afresh at every call.                                     *)
(***************************************************************************)
EXTENDS Integers, Sequences, FiniteSets, TLC

\* ------------------------------------------------------------------ bounds
MaxAddrs == 2           \* longest address list of the initial Node
MaxTaints == 2          \* longest taint list of the initial Node
MaxForeign == 1         \* writes of the foreign writer in one run
MaxRoutes == 2          \* longest route list netlink.RouteGet answers DetectIP on its own

\* --------------------------------------------------------------- constants
TaintKey == "node.cloudprovider.kubernetes.io/uninitialized"
NodeHostName == "Hostname"
NodeInternalIP == "InternalIP"
NodeExternalIP == "ExternalIP"

Nil == "<nil>"

\* Addresses the kernel can answer with (net.IP, the bytes in hex) and their
\* String().
KernelIPs == {"0a000005", "cb00710a"}
IPString(ip) == IF ip = "0a000005" THEN "10.0.0.5" ELSE "203.0.113.10"

\* Strings net.ParseIP accepts, among the configured targets of the model.
ParseIP(s) == IF s \in {"10.0.0.1", "8.8.8.8"} THEN s ELSE Nil

InternalTargets == {"", "10.0.0.1", "not-an-ip"}
ExternalTargets == {"8.8.8.8", "not-an-ip"}

\* v1.NodeAddress values of the model: (Type, Address).
NodeAddress ==
    [type : {NodeHostName}, address : {"node1", "node2"}]
    \cup [type : {NodeInternalIP}, address : {"10.0.0.5", "203.0.113.10"}]
    \cup [type : {NodeExternalIP}, address : {"", "10.0.0.5"}]

\* v1.Taint values of the model: (Key, Effect).
Taint ==
    [key : {TaintKey}, effect : {"NoSchedule", "NoExecute"}]
    \cup [key : {"other"}, effect : {"NoSchedule"}]

SeqsUpTo(S, n) == UNION {[1..k -> S] : k \in 0..n}

Range(s) == {s[i] : i \in 1..Len(s)}

NoDup(s) == \A i, j \in 1..Len(s) : s[i] = s[j] => i = j

\* The lists a Node can hold: the API server rejects a Node that has the same
\* (key, effect) taint twice or the same (type, address) pair twice; it
\* accepts several taints of one key and several addresses of one type.
TaintLists(n) == {s \in SeqsUpTo(Taint, n) : NoDup(s)}
AddressLists(n) == {s \in SeqsUpTo(NodeAddress, n) : NoDup(s)}

\* netlink.RouteGet results: an error, or a list of routes given by their Src.
RouteResults ==
    {[err |-> TRUE, routes |-> <<>>], [err |-> FALSE, routes |-> <<>>],
     [err |-> FALSE, routes |-> <<Nil>>]}
    \cup {[err |-> FALSE, routes |-> <<ip>>] : ip \in KernelIPs}

\* ------------------------------------------------------------ pure functions

\* detector.DetectIP, given what netlink.RouteGet answers for the target.
\* DetectIP taking the last route of the answer instead of routes[0].
DetectIPLastRoute(target, rt) ==
    IF target = ""
    THEN [ip |-> "", err |-> "target IP is empty", queried |-> FALSE]
    ELSE IF ParseIP(target) = Nil
         THEN [ip |-> "", err |-> "invalid target IP address", queried |-> FALSE]
    ELSE IF rt.err
         THEN [ip |-> "", err |-> "failed to get route", queried |-> TRUE]
    ELSE IF Len(rt.routes) = 0
         THEN [ip |-> "", err |-> "no route found", queried |-> TRUE]
    ELSE IF rt.routes[Len(rt.routes)] = Nil
         THEN [ip |-> "", err |-> "route has no source IP", queried |-> TRUE]
    ELSE [ip |-> IPString(rt.routes[Len(rt.routes)]), err |-> "", queried |-> TRUE]

\* queried tells whether netlink.RouteGet was called on the way.
DetectIP(target, rt) ==
    IF target = ""
    THEN [ip |-> "", err |-> "target IP is empty", queried |-> FALSE]
    ELSE IF ParseIP(target) = Nil
         THEN [ip |-> "", err |-> "invalid target IP address", queried |-> FALSE]
    ELSE IF rt.err
         THEN [ip |-> "", err |-> "failed to get route", queried |-> TRUE]
    ELSE IF Len(rt.routes) = 0
         THEN [ip |-> "", err |-> "no route found", queried |-> TRUE]
    ELSE IF rt.routes[1] = Nil
         THEN [ip |-> "", err |-> "route has no source IP", queried |-> TRUE]
    ELSE [ip |-> IPString(rt.routes[1]), err |-> "", queried |-> TRUE]

\* for _, addr := range list { m[addr.Type] = addr.Address }: the last entry
\* of a type wins.
RECURSIVE SeedMap(_)
SeedMap(list) ==
    IF Len(list) = 0 THEN <<>>
    ELSE LET m == SeedMap(SubSeq(list, 1, Len(list) - 1))
             a == list[Len(list)]
         IN  [t \in DOMAIN m \cup {a.type} |->
                 IF t = a.type THEN a.address ELSE m[t]]

MapSet(m, k, v) == [t \in DOMAIN m \cup {k} |-> IF t = k THEN v ELSE m[t]]
MapDelete(m, k) == [t \in DOMAIN m \ {k} |-> m[t]]
\* m[k] of a Go map: the zero value when the key is missing.
MapGet(m, k) == IF k \in DOMAIN m THEN m[k] ELSE ""

\* ApplyExternal with the delete left out: on a collision the map is kept
\* as it is.
ApplyExternalNoDelete(m, ext) ==
    IF NodeInternalIP \in DOMAIN m /\ m[NodeInternalIP] = ext
    THEN m
    ELSE MapSet(m, NodeExternalIP, ext)

\* ApplyExternal without the collision test: ExternalIP is always set to
\* the detected address.
ApplyExternalAlwaysSet(m, ext) == MapSet(m, NodeExternalIP, ext)

\* The collision rule of reconcile (lines 716-722).
ApplyExternal(m, ext) ==
    IF NodeInternalIP \in DOMAIN m /\ m[NodeInternalIP] = ext
    THEN MapDelete(m, NodeExternalIP)
    ELSE MapSet(m, NodeExternalIP, ext)

MapRange(m) == {m[k] : k \in DOMAIN m}

\* "Convert map back to slice": one entry per key, in the order the map
\* iteration happens to produce.
MapToSlices(m) ==
    {s \in [1..Cardinality(DOMAIN m) -> [type : DOMAIN m, address : MapRange(m)]] :
        /\ \A i \in DOMAIN s : s[i].address = m[s[i].type]
        /\ \A i, j \in DOMAIN s : s[i].type = s[j].type => i = j}

addressesEqual(a, b) ==
    IF Len(a) # Len(b) THEN FALSE
    ELSE LET aMap == SeedMap(a)
             bMap == SeedMap(b)
         IN  \A k \in DOMAIN aMap : MapGet(bMap, k) = aMap[k]

\* TaintIndex without the comparison of the key: the first taint, if any.
TaintIndexAnyKey(taints) == IF Len(taints) > 0 THEN 1 ELSE -1

\* The taint scan of RemoveTaint: index of the first taint with TaintKey, or -1.
TaintIndex(taints) ==
    IF \E i \in 1..Len(taints) : taints[i].key = TaintKey
    THEN CHOOSE i \in 1..Len(taints) :
            /\ taints[i].key = TaintKey
            /\ \A j \in 1..(i - 1) : taints[j].key # TaintKey
    ELSE -1

\* append(taints[:i], taints[i+1:]...)
RemoveAt(taints, i) ==
    SubSeq(taints, 1, i - 1) \o SubSeq(taints, i + 1, Len(taints))

\* reconcile calling RemoveTaint whatever --remove-taint says.
AfterAddressesAlways(remove) == "RemoveTaint"

\* reconcile without the call of RemoveTaint: it returns nil once the
\* address step is done.
AfterAddressesSkip(remove) == "Return"

\* reconcile, lines 743-750, once the address step is done: RemoveTaint is
\* called if requested, else reconcile returns nil.
AfterAddresses(remove) == IF remove THEN "RemoveTaint" ELSE "Return"

\* -------------------------------------------------------------------- state
VARIABLES
    internalIPTarget,    \* flag --internal-ip-target
    externalIPTarget,    \* flag --external-ip-target
    runOnce,             \* flag --run-once
    removeTaint,         \* flag --remove-taint
    apiNode,             \* the Node object in the API server
    pc,                  \* position of the process in main / reconcile
    currentNode,         \* reconcile: the Node fetched by GetNode
    addressMap,          \* reconcile: type -> address
    internalIP,          \* reconcile: DetectIP(internalIPTarget), "" if not run
    detectedExternalIP,  \* reconcile: DetectIP(externalIPTarget)
    addresses,           \* reconcile: the slice built from addressMap
    node,                \* RemoveTaint: the Node it read
    newTaints,           \* RemoveTaint: the taint list it is about to write
    err,                 \* the error reconcile returns, "" for nil
    exitCode,            \* os.Exit status, -1 while the process runs
    calls,               \* history: collaborator calls of the current cycle
    nodeAtStart,         \* history: apiNode when the current cycle started
    prev,                \* history: the lookups of the previous cycle, if it succeeded
    foreign,             \* history: writes of the foreign writer so far
    racedPatches,        \* history: patches of this cycle applied over a foreign write
    cancelRequested,     \* a cancellation of the run has been requested
    targetIP,            \* DetectIP on its own: the argument
    routeGet,            \* DetectIP on its own: what netlink.RouteGet answers
    detected             \* DetectIP on its own: what it returned

flags == <<internalIPTarget, externalIPTarget, runOnce, removeTaint>>
locals == <<currentNode, addressMap, internalIP, detectedExternalIP,
            addresses, node, newTaints>>
hist == <<nodeAtStart, prev, racedPatches>>
detector == <<targetIP, routeGet, detected>>
env == <<foreign, cancelRequested, detector>>
vars == <<flags, apiNode, pc, locals, err, exitCode, hist, calls, env>>

NoNode == [addresses |-> <<>>, taints |-> <<>>]
NoResult == [ip |-> "", err |-> "", queried |-> FALSE]
NoPrev == [ok |-> FALSE, internalIP |-> "", detectedExternalIP |-> ""]

Call(op, ok) == [op |-> op, ok |-> ok]

Init ==
    /\ internalIPTarget \in InternalTargets
    /\ externalIPTarget \in ExternalTargets
    /\ runOnce \in BOOLEAN
    /\ removeTaint \in BOOLEAN
    /\ apiNode \in [addresses : AddressLists(MaxAddrs), taints : TaintLists(MaxTaints)]
    /\ pc = "GetNode"
    /\ currentNode = NoNode
    /\ addressMap = <<>>
    /\ internalIP = ""
    /\ detectedExternalIP = ""
    /\ addresses = <<>>
    /\ node = NoNode
    /\ newTaints = <<>>
    /\ err = ""
    /\ exitCode = -1
    /\ calls = <<>>
    /\ nodeAtStart = apiNode
    /\ prev = NoPrev
    /\ foreign = 0
    /\ racedPatches = {}
    /\ cancelRequested = FALSE
    /\ targetIP = ""
    /\ routeGet = [err |-> FALSE, routes |-> <<>>]
    /\ detected = NoResult

\* ------------------------------------------------------------------ actions

\* reconcile, lines 684-694: fetch the Node and seed the address map.
GetNode ==
    /\ pc = "GetNode"
    /\ \E ok \in BOOLEAN :
        IF ok
        THEN /\ currentNode' = apiNode
             /\ addressMap' = SeedMap(apiNode.addresses)
             /\ calls' = Append(calls, Call("GetNode", TRUE))
             /\ pc' = "DetectInternal"
             /\ err' = err
        ELSE /\ calls' = Append(calls, Call("GetNode", FALSE))
             /\ err' = "failed to get node"
             /\ pc' = "Return"
             /\ UNCHANGED <<currentNode, addressMap>>
    /\ UNCHANGED <<flags, apiNode, internalIP, detectedExternalIP, addresses,
                   node, newTaints, exitCode, hist, env>>

\* reconcile, lines 696-706: detect the internal IP if a target is configured.
DetectInternalIP ==
    /\ pc = "DetectInternal"
    /\ IF internalIPTarget # ""
       THEN \E rt \in RouteResults :
              LET r == DetectIP(internalIPTarget, rt) IN
              IF r.err # ""
              THEN /\ calls' = Append(calls, Call("DetectInternalIP", FALSE))
                   /\ err' = "failed to detect internal IP"
                   /\ pc' = "Return"
                   /\ UNCHANGED <<internalIP, addressMap>>
              ELSE /\ calls' = Append(calls, Call("DetectInternalIP", TRUE))
                   /\ internalIP' = r.ip
                   /\ addressMap' = MapSet(addressMap, NodeInternalIP, r.ip)
                   /\ pc' = "DetectExternal"
                   /\ err' = err
       ELSE /\ pc' = "DetectExternal"
            /\ UNCHANGED <<internalIP, addressMap, err, calls>>
    /\ UNCHANGED <<flags, apiNode, currentNode, detectedExternalIP, addresses,
                   node, newTaints, exitCode, hist, env>>

\* DetectExternalIP without the return on a failed lookup: the cycle goes on
\* with the address map as seeded.
DetectExternalIPNoReturn ==
    /\ pc = "DetectExternal"
    /\ \E rt \in RouteResults :
        LET r == DetectIP(externalIPTarget, rt) IN
        /\ calls' = Append(calls, Call("DetectExternalIP", r.err = ""))
        /\ detectedExternalIP' = r.ip
        /\ addressMap' = ApplyExternal(addressMap, r.ip)
        /\ addresses' \in MapToSlices(addressMap')
        /\ err' = err
        /\ pc' = IF addressesEqual(currentNode.addresses, addresses')
                 THEN AfterAddresses(removeTaint)
                 ELSE "UpdateAddresses"
    /\ UNCHANGED <<flags, apiNode, currentNode, internalIP, node, newTaints,
                   exitCode, hist, env>>

\* reconcile, lines 708-736: detect the external IP, apply the collision
\* rule, rebuild the slice and compare it with the fetched addresses; the
\* write is skipped when they are equal.
DetectExternalIP ==
    /\ pc = "DetectExternal"
    /\ \E rt \in RouteResults :
        LET r == DetectIP(externalIPTarget, rt) IN
        IF r.err # ""
        THEN /\ calls' = Append(calls, Call("DetectExternalIP", FALSE))
             /\ err' = "failed to detect external IP"
             /\ pc' = "Return"
             /\ UNCHANGED <<detectedExternalIP, addressMap, addresses>>
        ELSE /\ calls' = Append(calls, Call("DetectExternalIP", TRUE))
             /\ detectedExternalIP' = r.ip
             /\ addressMap' = ApplyExternal(addressMap, r.ip)
             /\ addresses' \in MapToSlices(addressMap')
             /\ err' = err
             /\ pc' = IF addressesEqual(currentNode.addresses, addresses')
                      THEN AfterAddresses(removeTaint)
                      ELSE "UpdateAddresses"
    /\ UNCHANGED <<flags, apiNode, currentNode, internalIP, node, newTaints,
                   exitCode, hist, env>>

\* UpdateAddresses without the return on a failed patch: reconcile goes on
\* to the step after the address step.
UpdateAddressesNoReturn ==
    /\ pc = "UpdateAddresses"
    /\ \E ok \in BOOLEAN :
        IF ok
        THEN /\ apiNode' = [apiNode EXCEPT !.addresses = addresses]
             /\ calls' = Append(calls, Call("PatchAddresses", TRUE))
             /\ err' = err
        ELSE /\ calls' = Append(calls, Call("PatchAddresses", FALSE))
             /\ err' = "failed to update addresses"
             /\ apiNode' = apiNode
    /\ pc' = AfterAddresses(removeTaint)
    /\ UNCHANGED <<flags, locals, exitCode, hist, env>>

\* UpdateAddresses as an update of the whole object: it writes back the Node
\* the cycle fetched, with the new addresses.
UpdateAddressesWholeObject ==
    /\ pc = "UpdateAddresses"
    /\ \E ok \in BOOLEAN :
        IF ok
        THEN /\ apiNode' = [currentNode EXCEPT !.addresses = addresses]
             /\ calls' = Append(calls, Call("PatchAddresses", TRUE))
             /\ pc' = AfterAddresses(removeTaint)
             /\ err' = err
             /\ racedPatches' = IF apiNode.taints # currentNode.taints
                                THEN racedPatches \cup {"PatchAddresses"}
                                ELSE racedPatches
        ELSE /\ calls' = Append(calls, Call("PatchAddresses", FALSE))
             /\ err' = "failed to update addresses"
             /\ pc' = "Return"
             /\ UNCHANGED <<apiNode, racedPatches>>
    /\ UNCHANGED <<flags, locals, exitCode, nodeAtStart, prev, env>>

\* Updater.UpdateAddresses: JSON patch "replace /status/addresses".
UpdateAddresses ==
    /\ pc = "UpdateAddresses"
    /\ \E ok \in BOOLEAN :
        IF ok
        THEN /\ apiNode' = [apiNode EXCEPT !.addresses = addresses]
             /\ calls' = Append(calls, Call("PatchAddresses", TRUE))
             /\ pc' = AfterAddresses(removeTaint)
             /\ err' = err
             /\ racedPatches' = IF apiNode.taints # currentNode.taints
                                THEN racedPatches \cup {"PatchAddresses"}
                                ELSE racedPatches
        ELSE /\ calls' = Append(calls, Call("PatchAddresses", FALSE))
             /\ err' = "failed to update addresses"
             /\ pc' = "Return"
             /\ UNCHANGED <<apiNode, racedPatches>>
    /\ UNCHANGED <<flags, locals, exitCode, nodeAtStart, prev, env>>

\* RemoveTaint reading the Node only until a cycle has succeeded: once the
\* taint has been dealt with it is not looked at again.
RemoveTaintGetOnce ==
    /\ pc = "RemoveTaint"
    /\ IF prev.ok
       THEN /\ pc' = "Return"
            /\ UNCHANGED <<node, newTaints, calls, err>>
       ELSE \E ok \in BOOLEAN :
            IF ok
            THEN LET taintIndex == TaintIndex(apiNode.taints) IN
                 /\ node' = apiNode
                 /\ calls' = Append(calls, Call("GetTaints", TRUE))
                 /\ err' = err
                 /\ IF taintIndex = -1
                    THEN /\ pc' = "Return"
                         /\ newTaints' = newTaints
                    ELSE /\ pc' = "PatchTaints"
                         /\ newTaints' = RemoveAt(apiNode.taints, taintIndex)
            ELSE /\ calls' = Append(calls, Call("GetTaints", FALSE))
                 /\ err' = "failed to remove taint"
                 /\ pc' = "Return"
                 /\ UNCHANGED <<node, newTaints>>
    /\ UNCHANGED <<flags, apiNode, currentNode, addressMap, internalIP,
                   detectedExternalIP, addresses, exitCode, hist, env>>

\* RemoveTaint without a read of its own: it looks for the taint in the
\* Node reconcile fetched at the start of the cycle.
RemoveTaintGetFromFetch ==
    /\ pc = "RemoveTaint"
    /\ \E ok \in BOOLEAN :
        IF ok
        THEN LET taintIndex == TaintIndex(currentNode.taints) IN
             /\ node' = currentNode
             /\ calls' = Append(calls, Call("GetTaints", TRUE))
             /\ err' = err
             /\ IF taintIndex = -1
                THEN /\ pc' = "Return"
                     /\ newTaints' = newTaints
                ELSE /\ pc' = "PatchTaints"
                     /\ newTaints' = RemoveAt(currentNode.taints, taintIndex)
        ELSE /\ calls' = Append(calls, Call("GetTaints", FALSE))
             /\ err' = "failed to remove taint"
             /\ pc' = "Return"
             /\ UNCHANGED <<node, newTaints>>
    /\ UNCHANGED <<flags, apiNode, currentNode, addressMap, internalIP,
                   detectedExternalIP, addresses, exitCode, hist, env>>

\* Updater.RemoveTaint, lines 91-112: read the Node and look for the taint.
RemoveTaintGet ==
    /\ pc = "RemoveTaint"
    /\ \E ok \in BOOLEAN :
        IF ok
        THEN LET taintIndex == TaintIndex(apiNode.taints) IN
             /\ node' = apiNode
             /\ calls' = Append(calls, Call("GetTaints", TRUE))
             /\ err' = err
             /\ IF taintIndex = -1
                THEN /\ pc' = "Return"
                     /\ newTaints' = newTaints
                ELSE /\ pc' = "PatchTaints"
                     /\ newTaints' = RemoveAt(apiNode.taints, taintIndex)
        ELSE /\ calls' = Append(calls, Call("GetTaints", FALSE))
             /\ err' = "failed to remove taint"
             /\ pc' = "Return"
             /\ UNCHANGED <<node, newTaints>>
    /\ UNCHANGED <<flags, apiNode, currentNode, addressMap, internalIP,
                   detectedExternalIP, addresses, exitCode, hist, env>>

\* RemoveTaint's patch with its error dropped: a failed patch leaves the
\* error of reconcile nil.
RemoveTaintPatchIgnoreError ==
    /\ pc = "PatchTaints"
    /\ \E ok \in BOOLEAN :
        IF ok
        THEN /\ apiNode' = [apiNode EXCEPT !.taints = newTaints]
             /\ calls' = Append(calls, Call("PatchTaints", TRUE))
        ELSE /\ calls' = Append(calls, Call("PatchTaints", FALSE))
             /\ apiNode' = apiNode
    /\ pc' = "Return"
    /\ UNCHANGED <<flags, locals, err, exitCode, hist, env>>

\* Updater.RemoveTaint, lines 114-143: JSON patch "replace /spec/taints".
RemoveTaintPatch ==
    /\ pc = "PatchTaints"
    /\ \E ok \in BOOLEAN :
        IF ok
        THEN /\ apiNode' = [apiNode EXCEPT !.taints = newTaints]
             /\ calls' = Append(calls, Call("PatchTaints", TRUE))
             /\ err' = err
             /\ racedPatches' = IF apiNode.addresses # node.addresses
                                THEN racedPatches \cup {"PatchTaints"}
                                ELSE racedPatches
        ELSE /\ calls' = Append(calls, Call("PatchTaints", FALSE))
             /\ err' = "failed to remove taint"
             /\ UNCHANGED <<apiNode, racedPatches>>
    /\ pc' = "Return"
    /\ UNCHANGED <<flags, locals, exitCode, nodeAtStart, prev, env>>

\* main with os.Exit(1) on every failed cycle, --run-once or not.
MainResultExitOnError ==
    /\ pc = "Return"
    /\ IF runOnce \/ err # ""
       THEN /\ exitCode' = IF err # "" THEN 1 ELSE 0
            /\ pc' = "Exited"
       ELSE /\ exitCode' = exitCode
            /\ pc' = "Sleep"
    /\ UNCHANGED <<flags, apiNode, locals, err, hist, calls, env>>

\* main, lines 664-674: handle the result of reconcile.
MainResult ==
    /\ pc = "Return"
    /\ IF runOnce
       THEN /\ exitCode' = IF err # "" THEN 1 ELSE 0
            /\ pc' = "Exited"
       ELSE /\ exitCode' = exitCode
            /\ pc' = "Sleep"
    /\ UNCHANGED <<flags, apiNode, locals, err, hist, calls, env>>

\* main, lines 676-677 and the next iteration of the loop.
Sleep ==
    /\ pc = "Sleep"
    /\ prev' = IF err = ""
               THEN [ok |-> TRUE, internalIP |-> internalIP,
                     detectedExternalIP |-> detectedExternalIP]
               ELSE NoPrev
    /\ nodeAtStart' = apiNode
    /\ calls' = <<>>
    /\ err' = ""
    /\ currentNode' = NoNode
    /\ addressMap' = <<>>
    /\ internalIP' = ""
    /\ detectedExternalIP' = ""
    /\ addresses' = <<>>
    /\ node' = NoNode
    /\ newTaints' = <<>>
    /\ racedPatches' = {}
    /\ pc' = "GetNode"
    /\ UNCHANGED <<flags, apiNode, exitCode, env>>

Next ==
    \/ GetNode
    \/ DetectInternalIP
    \/ DetectExternalIP
    \/ UpdateAddresses
    \/ RemoveTaintGet
    \/ RemoveTaintPatch
    \/ MainResult
    \/ Sleep

Spec == Init /\ [][Next]_vars

\* A Node as the kubelet registers it, with at most one address and at most
\* the taint it sets with --cloud-provider=external.
InitK ==
    /\ Init
    /\ Len(apiNode.addresses) <= 1
    /\ \A a \in Range(apiNode.addresses) : a.address \in {"node1", "10.0.0.5"}
    /\ apiNode.taints \in {<<>>, <<[key |-> TaintKey, effect |-> "NoSchedule"]>>}

\* The process is the only thread of the program and every call it makes
\* returns, time.Sleep included: it keeps taking steps until it exits.
\* The runs start from a Node as the kubelet registers it.
SpecLive == InitK /\ [][Next]_vars /\ WF_vars(Next)

\* ------------------------------------------------------- a quiet environment
\* From the start every call succeeds (the API server answers, the kernel
\* has a route with a Src) and the lookups of a cycle return what they
\* returned in the cycle before. No foreign writer runs.
Quiet ==
    /\ Len(calls') > Len(calls) => calls'[Len(calls')].ok
    /\ (prev.ok /\ internalIP' \notin {internalIP, ""}) =>
          internalIP' = prev.internalIP
    /\ (prev.ok /\ detectedExternalIP' \notin {detectedExternalIP, ""}) =>
          detectedExternalIP' = prev.detectedExternalIP

NextQ ==
    \/ GetNode /\ Quiet
    \/ DetectInternalIP /\ Quiet
    \/ DetectExternalIP /\ Quiet
    \/ UpdateAddresses /\ Quiet
    \/ RemoveTaintGet /\ Quiet
    \/ RemoveTaintPatch /\ Quiet
    \/ MainResult /\ Quiet
    \/ Sleep /\ Quiet

SpecQ == Init /\ [][NextQ]_vars /\ WF_vars(NextQ)

\* ------------------------------------------------------ DetectIP on its own
\* The arguments DetectIP can be given, and the answers of netlink.RouteGet
\* with up to MaxRoutes routes, each with a Src or none.
DetectTargets == {"", "not-an-ip", "256.0.0.1", "10.0.0.1", "8.8.8.8"}
RouteGetResults ==
    {[err |-> TRUE, routes |-> <<>>]}
    \cup {[err |-> FALSE, routes |-> r] : r \in SeqsUpTo(KernelIPs \cup {Nil}, MaxRoutes)}

InitD ==
    /\ internalIPTarget = ""
    /\ externalIPTarget = "8.8.8.8"
    /\ runOnce = TRUE
    /\ removeTaint = FALSE
    /\ apiNode = NoNode
    /\ pc = "DetectIP"
    /\ currentNode = NoNode
    /\ addressMap = <<>>
    /\ internalIP = ""
    /\ detectedExternalIP = ""
    /\ addresses = <<>>
    /\ node = NoNode
    /\ newTaints = <<>>
    /\ err = ""
    /\ exitCode = -1
    /\ calls = <<>>
    /\ nodeAtStart = NoNode
    /\ prev = NoPrev
    /\ foreign = 0
    /\ racedPatches = {}
    /\ cancelRequested = FALSE
    /\ targetIP \in DetectTargets
    /\ routeGet \in RouteGetResults
    /\ detected = NoResult

\* One call of detector.DetectIP.
DetectIPCall ==
    /\ pc = "DetectIP"
    /\ detected' = DetectIP(targetIP, routeGet)
    /\ pc' = "Detected"
    /\ UNCHANGED <<flags, apiNode, locals, err, exitCode, hist, calls, foreign,
                   cancelRequested, targetIP, routeGet>>

NextD == DetectIPCall

SpecD == InitD /\ [][NextD]_vars

\* ------------------------------------------------------------ cancellation
\* Whoever runs the process asks it to stop. main passes
\* context.Background() to reconcile, DetectIP takes no context and the
\* pause is a time.Sleep: no step of the process reads the request.
Cancel ==
    /\ pc # "Exited"
    /\ ~cancelRequested
    /\ cancelRequested' = TRUE
    /\ UNCHANGED <<flags, apiNode, pc, locals, err, exitCode, hist, calls, foreign,
                   detector>>

NextC ==
    \/ Next
    \/ Cancel

SpecC == InitK /\ [][NextC]_vars

\* ------------------------------------------------------- the foreign writer
\* Another client of the API server (kubelet, the node controller, an
\* operator) writes the same Node while the process runs.

\* It sets an address of a type it owns: changes the entries of that type
\* to the value, or appends one.
ForeignSetAddress ==
    /\ pc # "Exited"
    /\ foreign < MaxForeign
    /\ \E a \in {x \in NodeAddress : x.type # NodeExternalIP} :
        /\ a \notin Range(apiNode.addresses)
        /\ IF \E i \in 1..Len(apiNode.addresses) : apiNode.addresses[i].type = a.type
           THEN apiNode' = [apiNode EXCEPT !.addresses =
                    [i \in 1..Len(apiNode.addresses) |->
                        IF apiNode.addresses[i].type = a.type
                        THEN a ELSE apiNode.addresses[i]]]
           ELSE apiNode' = [apiNode EXCEPT !.addresses = Append(apiNode.addresses, a)]
        /\ NoDup(apiNode'.addresses)
    /\ foreign' = foreign + 1
    /\ UNCHANGED <<flags, pc, locals, err, exitCode, hist, calls, cancelRequested,
                   detector>>

\* It adds a taint.
ForeignAddTaint ==
    /\ pc # "Exited"
    /\ foreign < MaxForeign
    /\ \E t \in Taint :
        /\ t \notin Range(apiNode.taints)
        /\ apiNode' = [apiNode EXCEPT !.taints = Append(apiNode.taints, t)]
    /\ foreign' = foreign + 1
    /\ UNCHANGED <<flags, pc, locals, err, exitCode, hist, calls, cancelRequested,
                   detector>>

\* It removes a taint.
ForeignRemoveTaint ==
    /\ pc # "Exited"
    /\ foreign < MaxForeign
    /\ \E i \in 1..Len(apiNode.taints) :
        apiNode' = [apiNode EXCEPT !.taints = RemoveAt(apiNode.taints, i)]
    /\ foreign' = foreign + 1
    /\ UNCHANGED <<flags, pc, locals, err, exitCode, hist, calls, cancelRequested,
                   detector>>

\* The runs with a foreign writer start from a Node as the kubelet registers
\* it, with at most one address and at most the taint it sets with
\* --cloud-provider=external: the foreign writer makes the other Nodes.
InitF == InitK

NextF ==
    \/ Next
    \/ ForeignSetAddress
    \/ ForeignAddTaint
    \/ ForeignRemoveTaint

SpecF == InitF /\ [][NextF]_vars

TypeOK ==
    /\ pc \in {"GetNode", "DetectInternal", "DetectExternal",
               "UpdateAddresses", "RemoveTaint",
               "PatchTaints", "Return", "Sleep", "Exited",
               "DetectIP", "Detected"}
    /\ exitCode \in {-1, 0, 1}
    /\ foreign \in 0..MaxForeign
    /\ racedPatches \subseteq {"PatchAddresses", "PatchTaints"}
    /\ cancelRequested \in BOOLEAN

\* ------------------------------------------------------------------ claims

Issued(op) == \E i \in 1..Len(calls) : calls[i].op = op
Succeeded(op) == \E i \in 1..Len(calls) : calls[i] = Call(op, TRUE)
Failed(op) == \E i \in 1..Len(calls) : calls[i] = Call(op, FALSE)

Managed == {NodeInternalIP, NodeExternalIP}
OfType(list, t) == {a \in Range(list) : a.type = t}
HasTaintKey(taints) == \E i \in 1..Len(taints) : taints[i].key = TaintKey
OnePerType(list) ==
    \A i, j \in 1..Len(list) : list[i].type = list[j].type => i = j

\* The cycle has returned from reconcile.
Returned == pc \in {"Return", "Sleep", "Exited"}

\* C1: with no foreign writes, every address entry whose type is neither
\* InternalIP nor ExternalIP stays in the Node, with its type and value,
\* across every step of every cycle.
C1_ForeignAddressesPreserved ==
    [][\A a \in Range(apiNode.addresses) :
          a.type \notin Managed => a \in Range(apiNode'.addresses)]_vars

\* The address set C2 expects after a successful cycle that started from
\* the list start.
ExpectedAddresses(start) ==
    LET seeded == Range(start)
        withInternal ==
            IF internalIPTarget # ""
            THEN {a \in seeded : a.type # NodeInternalIP}
                 \cup {[type |-> NodeInternalIP, address |-> internalIP]}
            ELSE seeded
        collide == [type |-> NodeInternalIP, address |-> detectedExternalIP]
                       \in withInternal
    IN  {a \in withInternal : a.type # NodeExternalIP}
        \cup (IF collide THEN {}
              ELSE {[type |-> NodeExternalIP, address |-> detectedExternalIP]})

\* C2: with no foreign writes, a cycle that started from a Node with at
\* most one address per type and returned success leaves the expected
\* address set, and no uninitialized taint when taint removal is enabled.
C2_SuccessfulCyclePostcondition ==
    (Returned /\ err = "" /\ OnePerType(nodeAtStart.addresses)) =>
        /\ Range(apiNode.addresses) = ExpectedAddresses(nodeAtStart.addresses)
        /\ removeTaint => ~HasTaintKey(apiNode.taints)

\* C3: with no foreign writes, a successful cycle that follows a successful
\* cycle with the same route lookup results issues no address patch and no
\* taint patch.
C3_SecondCycleWritesNothing ==
    (/\ Returned /\ err = ""
     /\ prev.ok
     /\ prev.internalIP = internalIP
     /\ prev.detectedExternalIP = detectedExternalIP) =>
        ~Issued("PatchAddresses") /\ ~Issued("PatchTaints")

\* The InternalIP entry of the address map of the cycle: the resolved one
\* when a target is configured, else the one seeded from the fetched Node
\* (the last of the list).
HasInternalEntry ==
    internalIPTarget # "" \/ OfType(currentNode.addresses, NodeInternalIP) # {}
InternalEntry ==
    IF internalIPTarget # "" THEN internalIP
    ELSE LET l == currentNode.addresses
             i == CHOOSE k \in 1..Len(l) :
                     /\ l[k].type = NodeInternalIP
                     /\ \A j \in (k + 1)..Len(l) : l[j].type # NodeInternalIP
         IN  l[i].address
Collision == HasInternalEntry /\ InternalEntry = detectedExternalIP
ExternalEntries ==
    {i \in 1..Len(addresses) : addresses[i].type = NodeExternalIP}

\* C4: once the external IP is resolved, the computed address list has no
\* ExternalIP entry when the InternalIP entry of the map equals it, and
\* exactly one, with the resolved value, otherwise.
C4_CollisionRule ==
    Succeeded("DetectExternalIP") =>
        IF Collision
        THEN ExternalEntries = {}
        ELSE /\ Cardinality(ExternalEntries) = 1
             /\ \A i \in ExternalEntries :
                    addresses[i].address = detectedExternalIP

\* C4 witness: a collision that drops an ExternalIP the fetched Node had, in a
\* cycle that also patched the Node.
C4_Witness ==
    /\ Succeeded("DetectExternalIP")
    /\ Collision
    /\ OfType(currentNode.addresses, NodeExternalIP) # {}
    /\ Succeeded("PatchAddresses")
    /\ OfType(apiNode.addresses, NodeExternalIP) = {}

\* C5: with no internal target and no foreign writes, every InternalIP
\* entry of the fetched Node is in the Node when the cycle has returned.
C5_InternalIPKeptWhenDisabled ==
    (Returned /\ internalIPTarget = "" /\ Succeeded("GetNode")) =>
        OfType(currentNode.addresses, NodeInternalIP)
            \subseteq Range(apiNode.addresses)

\* C6: when the fetch or a route lookup of the cycle failed, the cycle
\* returns an error, has issued no address patch, has neither read nor
\* patched the taints, and (with no foreign writes) the Node is as it was
\* when the cycle started.
C6_FailureIsolation ==
    (Failed("GetNode") \/ Failed("DetectInternalIP")
        \/ Failed("DetectExternalIP")) =>
        /\ Returned
        /\ err # ""
        /\ ~Issued("PatchAddresses")
        /\ ~Issued("GetTaints")
        /\ ~Issued("PatchTaints")
        /\ apiNode = nodeAtStart

\* C6 witness: the external lookup failed in a cycle whose Node needed both
\* an address patch and the taint removal.
C6_Witness ==
    /\ Failed("DetectExternalIP")
    /\ Returned
    /\ removeTaint
    /\ HasTaintKey(apiNode.taints)
    /\ OfType(apiNode.addresses, NodeExternalIP) = {}

\* C7: with no foreign writes, after a successful taint patch the Node has
\* no taint with the uninitialized key, and the other taints of the list
\* RemoveTaint read are all there, in their order.
C7_TaintRemoved ==
    Succeeded("PatchTaints") =>
        /\ ~HasTaintKey(apiNode.taints)
        /\ apiNode.taints = SelectSeq(node.taints, LAMBDA t : t.key # TaintKey)

\* C8: when the Node RemoveTaint read has no taint with the uninitialized
\* key, RemoveTaint returns success without a patch and (with no foreign
\* writes) the Node is as it was read.
C8_TaintAbsentNoOp ==
    (Succeeded("GetTaints") /\ ~HasTaintKey(node.taints)) =>
        /\ Returned
        /\ err = ""
        /\ ~Issued("PatchTaints")
        /\ apiNode = node

\* C8 witness: RemoveTaint read a Node with other taints only.
C8_Witness ==
    /\ Succeeded("GetTaints")
    /\ ~HasTaintKey(node.taints)
    /\ Len(node.taints) > 0
    /\ Returned

\* C9: under every interleaving with the foreign writer, the taint patch
\* removes no taint other than the uninitialized one: every other taint in
\* the Node when the patch is applied is in the Node after it.
C9_ForeignTaintsSurvivePatch ==
    [][(pc = "PatchTaints" /\ pc' = "Return") =>
          \A t \in Range(apiNode.taints) :
              t.key # TaintKey => t \in Range(apiNode'.taints)]_vars

\* The address types the process does not manage in this run.
ForeignTypes ==
    {NodeHostName} \cup (IF internalIPTarget = "" THEN {NodeInternalIP} ELSE {})

\* C10: under every interleaving with the foreign writer, every entry of a
\* foreign type that the foreign writer put in the Node after the fetch of
\* the cycle is in the Node after the address patch.
C10_ForeignAddressesSurvivePatch ==
    [][(pc = "UpdateAddresses" /\ pc' # pc) =>
          \A a \in Range(apiNode.addresses) \ Range(currentNode.addresses) :
              a.type \in ForeignTypes => a \in Range(apiNode'.addresses)]_vars

\* C11: the address patch changes only the address list and the taint patch
\* only the taint list: a step of UpdateAddresses leaves the taints as they
\* are in the API server, whatever a foreign writer put there since the
\* fetch, and a step of RemoveTaint's patch leaves the addresses as they
\* are, whatever a foreign writer put there since RemoveTaint's read.
C11_PartialPatchFrame ==
    [][/\ (pc = "UpdateAddresses" /\ pc' # pc) =>
              apiNode'.taints = apiNode.taints
       /\ (pc = "PatchTaints" /\ pc' # pc) =>
              apiNode'.addresses = apiNode.addresses]_vars

\* A successful address patch was applied after a foreign writer changed
\* the taints the cycle had fetched, and the foreign taints are in place.
C11_Witness ==
    /\ "PatchAddresses" \in racedPatches
    /\ calls[Len(calls)] = Call("PatchAddresses", TRUE)
    /\ apiNode.addresses = addresses
    /\ apiNode.taints # currentNode.taints

\* C12 as stated: a cycle that ends in failure has applied none of its
\* changes, the Node is as it was when the cycle started.
C12_NoPartialApplication ==
    (Returned /\ err # "") => apiNode = nodeAtStart

\* C12: every failed call is the last call of its cycle and makes reconcile
\* return an error; a failed cycle has not changed the taints, and has
\* changed the addresses only if its address patch succeeded and the
\* failure came from RemoveTaint afterwards.
C12_FailFast ==
    /\ \A i \in 1..Len(calls) :
          ~calls[i].ok => (i = Len(calls) /\ Returned /\ err # "")
    /\ (Returned /\ err # "") =>
          /\ apiNode.taints = nodeAtStart.taints
          /\ \/ apiNode.addresses = nodeAtStart.addresses
             \/ /\ Succeeded("PatchAddresses")
                /\ apiNode.addresses = addresses
                /\ Failed("GetTaints") \/ Failed("PatchTaints")

\* A cycle patched the addresses, failed in RemoveTaint and returned an
\* error with the Node changed.
C12_Witness ==
    /\ Returned
    /\ err = "failed to remove taint"
    /\ Succeeded("PatchAddresses")
    /\ apiNode # nodeAtStart

\* C13: addressesEqual is true exactly when the two lists hold the same set
\* of (type, address) pairs, so once the lookups have succeeded the cycle
\* goes to the address patch exactly when the computed set differs from
\* the fetched one.
C13_DiffBySetEquality ==
    Succeeded("DetectExternalIP") =>
        LET same == Range(currentNode.addresses) = Range(addresses) IN
        /\ addressesEqual(currentNode.addresses, addresses) <=> same
        /\ (pc = "UpdateAddresses" \/ Issued("PatchAddresses")) <=> ~same

\* The address step of the cycle has succeeded: the lookups are done and
\* the patch was either skipped or has succeeded.
AddressStepSucceeded ==
    /\ Succeeded("DetectExternalIP")
    /\ pc # "UpdateAddresses"
    /\ ~Failed("PatchAddresses")

\* C14: RemoveTaint is called only with --remove-taint, only when the
\* address step of the same cycle has succeeded, and after it; with
\* --remove-taint a cycle whose address step succeeded does not return
\* without calling it; the taints are patched, and changed, only through
\* that call.
C14_MarkerStepOrdering ==
    /\ Issued("GetTaints") =>
          /\ removeTaint
          /\ AddressStepSucceeded
          /\ \A i, j \in 1..Len(calls) :
                (/\ calls[i].op = "GetTaints"
                 /\ calls[j].op \in {"DetectExternalIP", "PatchAddresses"}) => j < i
    /\ (removeTaint /\ AddressStepSucceeded /\ Returned) => Issued("GetTaints")
    /\ Issued("PatchTaints") => Succeeded("GetTaints")
    /\ apiNode.taints # nodeAtStart.taints => Succeeded("GetTaints")

\* A cycle patched the addresses and then removed the taint.
C14_Witness ==
    /\ removeTaint
    /\ Len(calls) >= 2
    /\ calls[Len(calls) - 1] = Call("GetTaints", TRUE)
    /\ calls[Len(calls)] = Call("PatchTaints", TRUE)
    /\ Succeeded("PatchAddresses")
    /\ apiNode.taints # nodeAtStart.taints

\* C15: when reconcile has returned, its error is nil exactly when no call
\* of the cycle failed, and then every step the flags ask for was made and
\* succeeded: the fetch, the internal lookup if configured, the external
\* lookup, the address patch if one was issued, RemoveTaint if enabled.
C15_CycleOutcome ==
    Returned =>
        /\ err = "" <=> \A i \in 1..Len(calls) : calls[i].ok
        /\ err = "" =>
              /\ Succeeded("GetNode")
              /\ internalIPTarget # "" => Succeeded("DetectInternalIP")
              /\ Succeeded("DetectExternalIP")
              /\ removeTaint => Succeeded("GetTaints")
              /\ Issued("PatchTaints") => Succeeded("PatchTaints")

\* A cycle succeeded in every step but the last one it attempted,
\* RemoveTaint's patch, and reconcile has returned an error.
C15_Witness ==
    /\ Returned
    /\ err # ""
    /\ Succeeded("GetNode")
    /\ Succeeded("DetectExternalIP")
    /\ Succeeded("GetTaints")
    /\ Failed("PatchTaints")

\* The cycle failed in a lookup whose configured target does not parse as
\* an IP address: DetectIP returned "invalid target IP address".
InvalidInputFailure ==
    \/ Failed("DetectInternalIP") /\ ParseIP(internalIPTarget) = Nil
    \/ Failed("DetectExternalIP") /\ ParseIP(externalIPTarget) = Nil

\* C16: after a cycle has failed because a configured target does not
\* parse as an IP address, no further cycle is started, with or without
\* --run-once.
C16_InvalidInputNotRetried ==
    [][(Returned /\ InvalidInputFailure) => pc' # "GetNode"]_vars

\* C17: without --run-once the process never exits, whatever the outcome of
\* a cycle, and after every cycle another one is started; with --run-once
\* the process runs one cycle, never sleeps or starts a second one, and
\* exits with 0 if reconcile returned nil and with 1 if it returned an error.
C17_DriverModes ==
    /\ [](~runOnce => (pc # "Exited" /\ exitCode = -1))
    /\ ((~runOnce /\ pc = "Return") ~> (pc = "GetNode"))
    /\ [](runOnce => /\ pc # "Sleep"
                     /\ pc = "Exited" <=> exitCode # -1
                     /\ pc = "Exited" => (exitCode = 0 <=> err = "")
                     /\ pc = "Exited" => exitCode \in {0, 1})
    /\ [][runOnce => (pc' = "GetNode" => pc = "GetNode")]_vars
    /\ (runOnce ~> (pc = "Exited"))

\* Without --run-once a cycle has failed and the process is in its sleep
\* before the next cycle.
C17_Witness ==
    /\ ~runOnce
    /\ pc = "Sleep"
    /\ err # ""
    /\ exitCode = -1

NumTaintKey(taints) == Cardinality({i \in 1..Len(taints) : taints[i].key = TaintKey})

\* C18: with --remove-taint every cycle that succeeds, the first or a later
\* one, has read the taints again, and if the read showed the uninitialized
\* taint (put back by a foreign writer, say) the cycle has patched the
\* taints with the list it read less one taint of that key.
C18_MarkerReAddRepaired ==
    (removeTaint /\ Returned /\ err = "") =>
        /\ Succeeded("GetTaints")
        /\ HasTaintKey(node.taints) =>
              /\ Succeeded("PatchTaints")
              /\ Len(newTaints) = Len(node.taints) - 1
              /\ NumTaintKey(newTaints) = NumTaintKey(node.taints) - 1
              /\ Range(newTaints) \subseteq Range(node.taints)

\* Without --run-once, after a successful cycle, the taint was absent when
\* the cycle started; a foreign writer added it, and the cycle has removed
\* it and succeeded.
C18_Witness ==
    /\ ~runOnce
    /\ removeTaint
    /\ prev.ok
    /\ ~HasTaintKey(nodeAtStart.taints)
    /\ foreign > 0
    /\ HasTaintKey(node.taints)
    /\ Succeeded("PatchTaints")
    /\ pc = "Sleep"
    /\ err = ""
    /\ ~HasTaintKey(apiNode.taints)

\* C19: once a cancellation has been requested the process writes nothing
\* more to the Node, every call it still makes fails with a cancelled
\* error of its own, and no new cycle is started after the sleep.
C19_Cancellation ==
    [][cancelRequested =>
          /\ apiNode' = apiNode
          /\ Len(calls') > Len(calls) =>
                (~calls'[Len(calls')].ok /\ err' = "context canceled")
          /\ pc = "Sleep" => pc' # "GetNode"]_vars

\* C20: the step in which RemoveTaint reads the Node takes the Node as it
\* is in the API server at that moment, whatever the cycle fetched at its
\* start, and goes on to the taint patch exactly when that Node has a taint
\* with the uninitialized key, with the list it read less that taint.
C20_RemoveTaintOwnRead ==
    [][(pc = "RemoveTaint" /\ pc' # pc /\ err' = "") =>
          /\ node' = apiNode
          /\ pc' = "PatchTaints" <=> HasTaintKey(apiNode.taints)
          /\ pc' = "PatchTaints" =>
                /\ Len(newTaints') = Len(apiNode.taints) - 1
                /\ Range(newTaints') \subseteq Range(apiNode.taints)
                /\ NumTaintKey(newTaints') = NumTaintKey(apiNode.taints) - 1]_vars

\* The Node fetched at the start of the cycle had no uninitialized taint, a
\* foreign writer added one before RemoveTaint's read, and the cycle has
\* removed it.
C20_Witness ==
    /\ Succeeded("GetNode")
    /\ ~HasTaintKey(currentNode.taints)
    /\ HasTaintKey(node.taints)
    /\ calls[Len(calls)] = Call("PatchTaints", TRUE)
    /\ pc = "Return"
    /\ ~HasTaintKey(apiNode.taints)

\* C21: DetectIP returns an address and no error, or no address and an
\* error; it returns an error exactly when the target is empty, does not
\* parse, the route query fails, no route comes back or the first route
\* has no Src; an empty or unparsable target is refused before the route
\* table is queried; on success the result is the Src of the first route.
C21_DetectIPOutcomes ==
    pc = "Detected" =>
        LET routes == routeGet.routes IN
        /\ \/ detected.err = "" /\ detected.ip # ""
           \/ detected.err # "" /\ detected.ip = ""
        /\ detected.err # "" <=>
              \/ targetIP = ""
              \/ ParseIP(targetIP) = Nil
              \/ routeGet.err
              \/ Len(routes) = 0
              \/ routes[1] = Nil
        /\ (targetIP = "" \/ ParseIP(targetIP) = Nil) => ~detected.queried
        /\ detected.err = "" => detected.ip = IPString(routes[1])

\* DetectIP was given two routes with different Src and has returned the
\* first one.
C21_Witness ==
    /\ pc = "Detected"
    /\ Len(routeGet.routes) = 2
    /\ routeGet.routes[1] # Nil
    /\ routeGet.routes[2] # routeGet.routes[1]
    /\ detected.err = ""
    /\ detected.ip = IPString(routeGet.routes[1])

\* C22: without --remove-taint no cycle calls RemoveTaint, neither its read
\* nor its patch, the taints of the Node stay as they were when the cycle
\* started, and reconcile returns nil exactly when the fetch, the lookups
\* that are configured and the address patch, if one was issued, succeeded.
C22_RemoveTaintDisabled ==
    ~removeTaint =>
        /\ pc \notin {"RemoveTaint", "PatchTaints"}
        /\ ~Issued("GetTaints")
        /\ ~Issued("PatchTaints")
        /\ apiNode.taints = nodeAtStart.taints
        /\ Returned =>
              (err = "" <=>
                  /\ Succeeded("GetNode")
                  /\ internalIPTarget # "" => Succeeded("DetectInternalIP")
                  /\ Succeeded("DetectExternalIP")
                  /\ ~Failed("PatchAddresses"))

\* Without --remove-taint a second cycle has patched the addresses and
\* succeeded, and the uninitialized taint is still on the Node.
C22_Witness ==
    /\ ~removeTaint
    /\ prev.ok
    /\ HasTaintKey(apiNode.taints)
    /\ Succeeded("PatchAddresses")
    /\ pc = "Sleep"
    /\ err = ""

Converged ==
    /\ prev.ok
    /\ internalIPTarget # "" =>
          OfType(apiNode.addresses, NodeInternalIP) =
              {[type |-> NodeInternalIP, address |-> prev.internalIP]}
    /\ IF \E a \in OfType(apiNode.addresses, NodeInternalIP) :
              a.address = prev.detectedExternalIP
       THEN OfType(apiNode.addresses, NodeExternalIP) = {}
       ELSE OfType(apiNode.addresses, NodeExternalIP) =
              {[type |-> NodeExternalIP, address |-> prev.detectedExternalIP]}
    /\ removeTaint => ~HasTaintKey(apiNode.taints)

\* C24: without --run-once and with targets that parse, in a quiet
\* environment the Node eventually has the resolved addresses and no
\* uninitialized taint, for good, and from some point on no step writes
\* to it.
C24_Convergence ==
    (~runOnce /\ ParseIP(externalIPTarget) # Nil
        /\ (internalIPTarget # "" => ParseIP(internalIPTarget) # Nil)) =>
        /\ <>[]Converged
        /\ <>[][apiNode' = apiNode]_vars

====
